---- MODULE Spec2Model ----
(***************************************************************************)
(* Model of compiler/rustc_codegen_gcc/src/asm.rs: the lowering of Rust    *)
(* inline assembly (codegen_inline_asm) to GCC extended asm.               *)
(*                                                                         *)
(* Text (templates, constraint strings, symbol names, constant strings) is *)
(* a sequence of one-character strings.  Register names are atomic strings *)
(* (they are only compared and handed on).  Source indices (rust_idx,      *)
(* operand_idx) and GCC indices are 0-based as in the source; TLA+         *)
(* sequences are 1-based, so operand rust_idx is rust_operands[rust_idx+1].*)
(***************************************************************************)
EXTENDS Naturals, Sequences, FiniteSets

\* Largest operand list of the operand-focused inputs.
MaxOps == 2

\* Longest template of the template-focused inputs.
MaxPieces == 2

(***************************************************************************)
(* InlineAsmOptions                                                        *)
(***************************************************************************)
MAY_UNWIND == "MAY_UNWIND"
ATT_SYNTAX == "ATT_SYNTAX"
PRESERVES_FLAGS == "PRESERVES_FLAGS"
NOMEM == "NOMEM"
PURE == "PURE"
NORETURN == "NORETURN"

AllOptions == {MAY_UNWIND, ATT_SYNTAX, PRESERVES_FLAGS, NOMEM, PURE, NORETURN}

(***************************************************************************)
(* Text constants                                                          *)
(***************************************************************************)
ATT_SYNTAX_INS ==
    <<".", "a", "t", "t", "_", "s", "y", "n", "t", "a", "x", " ",
      "n", "o", "p", "r", "e", "f", "i", "x", "\n", "\t">>

INTEL_SYNTAX_INS ==
    <<"\n", "\t", ".", "i", "n", "t", "e", "l", "_", "s", "y", "n", "t", "a", "x", " ",
      "n", "o", "p", "r", "e", "f", "i", "x">>

Digits == <<"0", "1", "2", "3", "4", "5", "6", "7", "8", "9">>

\* usize::to_string / write!("{}", gcc_idx): the decimal text of n.
RECURSIVE ToString(_)
ToString(n) ==
    IF n < 10 THEN <<Digits[n + 1]>>
    ELSE ToString(n \div 10) \o <<Digits[(n % 10) + 1]>>

\* Option<char> as text: None is "", Some(c) is c.
NoModifier == ""

(***************************************************************************)
(* Registers and register classes (InlineAsmRegOrRegClass)                 *)
(***************************************************************************)
RegClass(arch, class) == [tag |-> "RegClass", arch |-> arch, class |-> class, name |-> ""]
Reg(arch, class, name) == [tag |-> "Reg", arch |-> arch, class |-> class, name |-> name]

\* InlineAsmReg::reg_class / the class itself.
reg_class(reg) == [arch |-> reg.arch, class |-> reg.class]

Constraint(c) == [tag |-> "Constraint", constraint |-> c, reg_name |-> ""]
Register(n) == [tag |-> "Register", constraint |-> <<>>, reg_name |-> n]
\* unimplemented!(), unreachable!() and bug!(): the call does not return.
Panic == [tag |-> "panic", constraint |-> <<>>, reg_name |-> ""]

\* reg_to_gcc with an explicit register resolved like a register class.
reg_to_gcc_explicit_as_class(reg) ==
    IF reg.arch # "X86" THEN Panic ELSE Constraint(<<"r">>)

\* reg_to_gcc with a general-register guess in place of every missing entry.
reg_to_gcc_guessing(reg) ==
    IF reg.tag = "Reg" THEN Register(reg.name) ELSE Constraint(<<"r">>)

\* Converts a register or register class to a GCC constraint code or to a
\* register name for a local register variable.
reg_to_gcc(reg) ==
    IF reg.tag = "Reg"
    THEN IF reg.arch = "X86"
         THEN Register(IF reg.name = "st(0)" THEN "st" ELSE reg.name)
         ELSE Panic
    ELSE IF reg.arch # "X86" THEN Panic
    ELSE CASE reg.class = "reg" -> Constraint(<<"r">>)
           [] reg.class = "reg_abcd" -> Constraint(<<"Q">>)
           [] reg.class = "reg_byte" -> Constraint(<<"q">>)
           [] reg.class \in {"xmm_reg", "ymm_reg"} -> Constraint(<<"x">>)
           [] reg.class = "zmm_reg" -> Constraint(<<"v">>)
           [] reg.class = "kreg" -> Constraint(<<"Y", "k">>)
           [] OTHER -> Panic

\* Type to use for outputs that are discarded ("unimplemented" where the
\* function does not return).
dummy_output_type(class) ==
    IF class.arch = "X86"
    THEN CASE class.class \in {"reg", "reg_abcd"} -> "i32"
           [] class.class = "reg_byte" -> "i8"
           [] class.class \in {"xmm_reg", "ymm_reg", "zmm_reg"} -> "f32"
           [] class.class \in {"kreg", "kreg0"} -> "i16"
           [] OTHER -> "unimplemented"
    ELSE CASE class.arch = "AArch64" /\ class.class = "reg" -> "i32"
           [] OTHER -> "unimplemented"

\* The X86 row of modifier_to_gcc for reg and reg_abcd.
X86RegModifier(arch, modifier) ==
    CASE modifier = NoModifier -> IF arch = "X86_64" THEN "q" ELSE "k"
      [] modifier = "l" -> "b"
      [] modifier = "h" -> "h"
      [] modifier = "x" -> "w"
      [] modifier = "e" -> "k"
      [] modifier = "r" -> "q"
      [] OTHER -> "panic"

\* The GCC operand modifier for a placeholder's modifier: a character,
\* NoModifier for None, "panic" where the function does not return.
modifier_to_gcc(arch, class, modifier) ==
    IF class.arch = "X86"
    THEN CASE class.class \in {"reg", "reg_abcd"} -> X86RegModifier(arch, modifier)
           [] class.class \in {"reg_byte", "kreg", "kreg0"} -> NoModifier
           [] class.class \in {"xmm_reg", "ymm_reg", "zmm_reg"} ->
                CASE modifier = NoModifier /\ class.class = "xmm_reg" -> "x"
                  [] modifier = NoModifier /\ class.class = "ymm_reg" -> "t"
                  [] modifier = NoModifier /\ class.class = "zmm_reg" -> "g"
                  [] modifier = "x" -> "x"
                  [] modifier = "y" -> "t"
                  [] modifier = "z" -> "g"
                  [] OTHER -> "panic"
           [] OTHER -> "panic"
    ELSE IF class.arch = "AArch64" /\ class.class \in {"reg", "preg"}
         THEN modifier
         ELSE "panic"

\* InlineAsmRegClass::supported_types(arch): the target feature each
\* supported type needs (NoFeature: none).  The clobber-only classes
\* support no type.
NoFeature == ""

supported_types(class, arch) ==
    IF class.arch = "X86"
    THEN CASE class.class \in {"reg", "reg_abcd", "reg_byte"} -> <<NoFeature, NoFeature>>
           [] class.class = "xmm_reg" -> <<"sse">>
           [] class.class = "ymm_reg" -> <<"avx">>
           [] class.class \in {"zmm_reg", "kreg"} -> <<"avx512f">>
           [] OTHER -> <<>>
    ELSE <<>>

\* `clobber_abi` can add clobbers the target does not support: a register
\* counts as supported when some type of its class needs no feature or an
\* enabled one.
is_target_supported(reg, arch, features) ==
    LET types == supported_types(reg_class(reg), arch)
    IN  \E k \in 1..Len(types) : types[k] = NoFeature \/ types[k] \in features

(***************************************************************************)
(* Operands (InlineAsmOperandRef) and template pieces                      *)
(* (InlineAsmTemplatePiece).  `place` says whether an Out / InOut operand  *)
(* has a destination (Some(place)) or is discarded (None, the `_` syntax). *)
(***************************************************************************)
NoReg == RegClass("", "")

Out(reg, late, place) ==
    [kind |-> "Out", reg |-> reg, late |-> late, place |-> place, string |-> <<>>]
In(reg) ==
    [kind |-> "In", reg |-> reg, late |-> FALSE, place |-> FALSE, string |-> <<>>]
InOut(reg, late, out_place) ==
    [kind |-> "InOut", reg |-> reg, late |-> late, place |-> out_place, string |-> <<>>]
Const(string) ==
    [kind |-> "Const", reg |-> NoReg, late |-> FALSE, place |-> FALSE, string |-> string]
\* `string` of a symbol operand is tcx.symbol_name(instance).name.
SymFn(name) ==
    [kind |-> "SymFn", reg |-> NoReg, late |-> FALSE, place |-> FALSE, string |-> name]
SymStatic(name) ==
    [kind |-> "SymStatic", reg |-> NoReg, late |-> FALSE, place |-> FALSE, string |-> name]

String(string) ==
    [kind |-> "String", string |-> string, operand_idx |-> 0, modifier |-> NoModifier]
Placeholder(operand_idx, modifier) ==
    [kind |-> "Placeholder", string |-> <<>>, operand_idx |-> operand_idx,
     modifier |-> modifier]

(***************************************************************************)
(* Operand records                                                         *)
(***************************************************************************)
AsmOutOperand(rust_idx, constraint, late, readwrite, tmp_var, out_place) ==
    [rust_idx |-> rust_idx, constraint |-> constraint, late |-> late,
     readwrite |-> readwrite, tmp_var |-> tmp_var, out_place |-> out_place]

AsmInOperand(rust_idx, constraint, val) ==
    [rust_idx |-> rust_idx, constraint |-> constraint, val |-> val]

\* AsmOutOperand::to_constraint
to_constraint_no_early_clobber(op) ==
    <<IF op.readwrite THEN "+" ELSE "=">> \o op.constraint

\* to_constraint with the test on `late` inverted.
to_constraint_marker_when_late(op) ==
    <<IF op.readwrite THEN "+" ELSE "=">>
        \o (IF op.late THEN <<"&">> ELSE <<>>) \o op.constraint

to_constraint(op) ==
    <<IF op.readwrite THEN "+" ELSE "=">>
        \o (IF ~op.late THEN <<"&">> ELSE <<>>) \o op.constraint

(***************************************************************************)
(* Steps of codegen_inline_asm                                             *)
(***************************************************************************)
\* options.contains(InlineAsmOptions::MAY_UNWIND)
may_unwind_ignored(options) == FALSE

may_unwind(options) == MAY_UNWIND \in options

is_x86(arch) == arch \in {"X86", "X86_64"}

\* att_dialect without the architecture test.
att_dialect_any_arch(arch, options) == ATT_SYNTAX \in options

att_dialect(arch, options) == is_x86(arch) /\ ATT_SYNTAX \in options

\* The clobber list after `out("explicit register") _`.
push_clobber_no_dedup(clobbers, reg_name, supported) ==
    IF supported THEN Append(clobbers, reg_name) ELSE clobbers

push_clobber(clobbers, reg_name, supported) ==
    IF supported /\ ~(\E k \in 1..Len(clobbers) : clobbers[k] = reg_name)
    THEN Append(clobbers, reg_name)
    ELSE clobbers

\* let readwrite = out_place.is_none();
inout_readwrite_never(out_place) == FALSE

inout_readwrite(out_place) == ~out_place

\* The constraint of a tied input: the GCC index of the output just pushed.
tied_constraint_off_by_one(outs) == ToString(Len(outs))

tied_constraint_rust_idx(outs) == ToString(outs[Len(outs)].rust_idx)

tied_constraint(outs) == ToString(Len(outs) - 1)

\* iter().position(|op| operand_idx == op.rust_idx): the 0-based position of
\* the first record of source index operand_idx, -1 standing for None
\* (positions are compared only after the None test).
HasPosition(ops, operand_idx) == \E k \in 1..Len(ops) : ops[k].rust_idx = operand_idx

position_is_rust_idx(ops, operand_idx) == operand_idx

position(ops, operand_idx) ==
    (CHOOSE k \in 1..Len(ops) :
        /\ ops[k].rust_idx = operand_idx
        /\ \A j \in 1..(k - 1) : ops[j].rust_idx # operand_idx) - 1

\* let gcc_index = in_gcc_index + outputs.len();
in_gcc_index_no_offset(in_pos, outs) == in_pos

in_gcc_index(in_pos, outs) == in_pos + Len(outs)

\* The closure push_to_template: '%', the modifier if any, the index.
push_to_template(modifier, gcc_idx) ==
    <<"%">> \o (IF modifier # NoModifier THEN <<modifier>> ELSE <<>>) \o ToString(gcc_idx)

\* str::split(sep) for a one-character separator: the pieces between the
\* separators, an empty piece where two separators touch or one ends the
\* string.
RECURSIVE split(_, _)
split(string, sep) ==
    IF \A i \in 1..Len(string) : string[i] # sep
    THEN <<string>>
    ELSE LET i == CHOOSE i \in 1..Len(string) :
                     /\ string[i] = sep
                     /\ \A j \in 1..(i - 1) : string[j] # sep
         IN  <<SubSeq(string, 1, i - 1)>>
                 \o split(SubSeq(string, i + 1, Len(string)), sep)

\* for s in iter { push_str("%%"); push_str(s) }
RECURSIVE push_escaped(_)
push_escaped(iter) ==
    IF iter = <<>> THEN <<>>
    ELSE <<"%", "%">> \o Head(iter) \o push_escaped(Tail(iter))

\* The literal piece with no escaping done.
escape_percent_verbatim(string) == string

\* What a literal piece adds to the template: the first piece of
\* string.split('%'), then "%%" and the piece for every further one.
escape_percent(string) ==
    LET iter == split(string, "%")
    IN  Head(iter) \o push_escaped(Tail(iter))

\* The clobbers of the extended asm block: the collected registers, then
\* "cc" and "memory" unless opted out.
asm_clobbers_swapped(clobbers, options) ==
    clobbers
        \o (IF NOMEM \notin options THEN <<"cc">> ELSE <<>>)
        \o (IF PRESERVES_FLAGS \notin options THEN <<"memory">> ELSE <<>>)

asm_clobbers(clobbers, options) ==
    clobbers
        \o (IF PRESERVES_FLAGS \notin options THEN <<"cc">> ELSE <<>>)
        \o (IF NOMEM \notin options THEN <<"memory">> ELSE <<>>)

(***************************************************************************)
(* State of one codegen_inline_asm call                                    *)
(***************************************************************************)
VARIABLES
    template,         \* the call's arguments and the session's target:
    rust_operands,    \*   never changed by the call
    options,
    asm_arch,
    target_features,
    pc,               \* position in the function
    idx,              \* index of the running loop (rust_idx, or the piece)
    outputs,          \* let mut outputs = vec![]
    inputs,           \* let mut inputs = vec![]
    clobbers,         \* let mut clobbers = vec![]
    constants_len,    \* let mut constants_len = 0
    template_str,     \* let mut template_str
    placed,           \* history: what each placeholder met so far was replaced by
    stream,           \* what the call appended to the function and its block
    extended_asm,     \* the extended asm block added to the block, if any
    diagnostics       \* errors emitted to the session

args == <<template, rust_operands, options, asm_arch, target_features>>
locals == <<outputs, inputs, clobbers, constants_len, template_str, placed>>
effects == <<stream, extended_asm, diagnostics>>
vars == <<args, pc, idx, locals, effects>>

NoAsm == [present |-> FALSE]

\* Events of the instruction stream.
NewLocal(name, ty, register_name) ==
    [op |-> "new_local", name |-> name, ty |-> ty, register_name |-> register_name]
AddAssignment(var, rust_idx) ==
    [op |-> "add_assignment", var |-> var, rust_idx |-> rust_idx]
AddExtendedAsm == [op |-> "add_extended_asm"]
CallUnreachable == [op |-> "call", callee |-> "__builtin_unreachable"]
Store(tmp_var, rust_idx) == [op |-> "store", tmp_var |-> tmp_var, rust_idx |-> rust_idx]

\* Values handed to add_input_operand.
Immediate(rust_idx) == [val |-> "immediate", of |-> rust_idx]
RegVar(var) == [val |-> "reg_var", of |-> var]
Address(rust_idx) == [val |-> "address", of |-> rust_idx]

(***************************************************************************)
(* Inputs.  The frontend hands over registers of the target architecture   *)
(* only, placeholders whose operand_idx is in range, and modifiers that    *)
(* are valid for the operand's class.                                      *)
(***************************************************************************)
X86_reg == RegClass("X86", "reg")
X86_reg_byte == RegClass("X86", "reg_byte")
X86_kreg0 == RegClass("X86", "kreg0")
X86_eax == Reg("X86", "reg", "eax")
X86_zmm0 == Reg("X86", "zmm_reg", "zmm0")
X86_st0 == Reg("X86", "x87_reg", "st(0)")
AArch64_reg == RegClass("AArch64", "reg")
AArch64_x0 == Reg("AArch64", "reg", "x0")

Architectures == {"X86", "X86_64", "AArch64"}

RegsOf(arch) ==
    IF is_x86(arch)
    THEN {X86_reg, X86_reg_byte, X86_kreg0, X86_eax, X86_zmm0, X86_st0}
    ELSE {AArch64_reg, AArch64_x0}

SymbolOperands == {Const(<<"1">>), SymFn(<<"f">>), SymStatic(<<"s">>)}

\* Every operand shape over the registers regs.
OperandsOver(regs, lates) ==
    {Out(r, l, p) : r \in regs, l \in lates, p \in BOOLEAN}
        \cup {In(r) : r \in regs}
        \cup {InOut(r, l, p) : r \in regs, l \in lates, p \in BOOLEAN}
        \cup SymbolOperands

\* The operands of the operand-focused inputs: a register class, a
\* supported and an unsupported explicit register.
CoreOperands ==
    {Out(r, FALSE, p) : r \in {X86_reg, X86_eax, X86_zmm0}, p \in BOOLEAN}
        \cup {In(r) : r \in {X86_reg, X86_eax}}
        \cup {InOut(r, FALSE, p) : r \in {X86_reg, X86_eax}, p \in BOOLEAN}
        \cup SymbolOperands

SeqsUpTo(S, n) == UNION {[1..k -> S] : k \in 0..n}

ValidModifiers(op) ==
    IF op.kind \in {"Out", "In", "InOut"} /\ op.reg.arch = "X86"
    THEN CASE op.reg.class \in {"reg", "reg_abcd"} -> {NoModifier, "e"}
           [] op.reg.class = "zmm_reg" -> {NoModifier, "y"}
           [] OTHER -> {NoModifier}
    ELSE {NoModifier}

PlaceholdersOf(ops) ==
    UNION {{Placeholder(i - 1, m) : m \in ValidModifiers(ops[i])} : i \in 1..Len(ops)}

Strings == {String(<<"a">>), String(<<"%">>), String(<<"a", "%", "%", "b">>)}

\* Templates naming each operand of a subset once, in order, unmodified.
RECURSIVE SubsetTemplates(_, _)
SubsetTemplates(n, from) ==
    IF from >= n THEN {<<>>}
    ELSE LET rest == SubsetTemplates(n, from + 1)
         IN  rest \cup {<<Placeholder(from, NoModifier)>> \o t : t \in rest}

\* Operand lists of the template- and option-focused inputs.
ScenarioOperands ==
    { <<InOut(X86_reg, FALSE, TRUE)>>,
      <<In(X86_reg), Out(X86_reg, TRUE, TRUE)>>,
      <<Const(<<"1">>), SymFn(<<"f">>)>>,
      <<Out(X86_eax, FALSE, FALSE), In(X86_eax)>>,
      <<InOut(X86_eax, TRUE, TRUE), Out(X86_reg_byte, FALSE, FALSE)>> }

\* Operand-focused: every list of core operands.
InitOperands ==
    /\ rust_operands \in SeqsUpTo(CoreOperands, MaxOps)
    /\ template \in SubsetTemplates(Len(rust_operands), 0)
    /\ options \in {{}, {MAY_UNWIND}, {ATT_SYNTAX}}
    /\ asm_arch = "X86_64"
    /\ target_features = {}

\* Template-focused: every template over a few operand lists.
InitTemplates ==
    /\ rust_operands \in ScenarioOperands
    /\ template \in SeqsUpTo(Strings \cup PlaceholdersOf(rust_operands), MaxPieces)
    /\ options \in {{}, {ATT_SYNTAX}}
    /\ asm_arch \in {"X86", "X86_64"}
    /\ target_features = {}

\* Option-focused: every option set, architecture and operand shape.
InitOptions ==
    /\ asm_arch \in Architectures
    /\ target_features \in {{}, {"avx512f"}}
    /\ options \in SUBSET AllOptions
    /\ rust_operands \in SeqsUpTo(OperandsOver(RegsOf(asm_arch), BOOLEAN), 1)
    /\ template \in SubsetTemplates(Len(rust_operands), 0)

Init ==
    /\ InitOperands \/ InitTemplates \/ InitOptions
    /\ pc = "start"
    /\ idx = 0
    /\ outputs = <<>>
    /\ inputs = <<>>
    /\ clobbers = <<>>
    /\ constants_len = 0
    /\ template_str = <<>>
    /\ placed = <<>>
    /\ stream = <<>>
    /\ extended_asm = NoAsm
    /\ diagnostics = <<>>

(***************************************************************************)
(* codegen_inline_asm, step by step                                        *)
(***************************************************************************)
Operand == rust_operands[idx + 1]

\* The next local's handle: its place in the stream.
NextVar == Len(stream) + 1

\* A panic (unimplemented!, unreachable!, expect): the call is left at once.
PanicNow ==
    /\ pc' = "panicked"
    /\ UNCHANGED <<args, idx, locals, effects>>

\* if options.contains(InlineAsmOptions::MAY_UNWIND) { emit error; return }
CheckUnwind ==
    /\ pc = "start"
    /\ IF may_unwind(options)
       THEN /\ diagnostics' = Append(diagnostics, "UnwindingInlineAsm")
            /\ pc' = "returned"
       ELSE /\ pc' = "pass1"
            /\ UNCHANGED diagnostics
    /\ UNCHANGED <<args, idx, locals, stream, extended_asm>>

\* The end of a `for (rust_idx, op) in rust_operands.iter().enumerate()`.
Pass1Done ==
    /\ pc = "pass1"
    /\ idx = Len(rust_operands)
    /\ pc' = "pass2"
    /\ idx' = 0
    /\ UNCHANGED <<args, locals, effects>>

\* 1. Normal variables: InlineAsmOperandRef::Out
Pass1Out ==
    /\ pc = "pass1"
    /\ idx < Len(rust_operands)
    /\ Operand.kind = "Out"
    /\ LET gcc == reg_to_gcc(Operand.reg)
           ty == IF Operand.place THEN "place"
                 ELSE dummy_output_type(reg_class(Operand.reg))
       IN  CASE gcc.tag = "panic" -> PanicNow
             [] gcc.tag = "Register" /\ Operand.place ->
                  \* left for the next pass
                  /\ idx' = idx + 1
                  /\ UNCHANGED <<args, pc, locals, effects>>
             [] gcc.tag = "Register" /\ ~Operand.place ->
                  /\ clobbers' = push_clobber(clobbers, gcc.reg_name,
                         is_target_supported(Operand.reg, asm_arch, target_features))
                  /\ idx' = idx + 1
                  /\ UNCHANGED <<args, pc, outputs, inputs, constants_len,
                                 template_str, placed, effects>>
             [] gcc.tag = "Constraint" /\ ty = "unimplemented" -> PanicNow
             [] OTHER ->
                  /\ stream' = Append(stream, NewLocal("output_register", ty, ""))
                  /\ outputs' = Append(outputs,
                         AsmOutOperand(idx, gcc.constraint, Operand.late, FALSE,
                                       NextVar, Operand.place))
                  /\ idx' = idx + 1
                  /\ UNCHANGED <<args, pc, inputs, clobbers, constants_len,
                                 template_str, placed, extended_asm, diagnostics>>

\* 1. Normal variables: InlineAsmOperandRef::In
Pass1In ==
    /\ pc = "pass1"
    /\ idx < Len(rust_operands)
    /\ Operand.kind = "In"
    /\ LET gcc == reg_to_gcc(Operand.reg)
       IN  CASE gcc.tag = "panic" -> PanicNow
             [] gcc.tag = "Constraint" ->
                  /\ inputs' = Append(inputs,
                         AsmInOperand(idx, gcc.constraint, Immediate(idx)))
                  /\ idx' = idx + 1
                  /\ UNCHANGED <<args, pc, outputs, clobbers, constants_len,
                                 template_str, placed, effects>>
             [] OTHER ->
                  \* left for the next pass
                  /\ idx' = idx + 1
                  /\ UNCHANGED <<args, pc, locals, effects>>

\* 1. Normal variables: InlineAsmOperandRef::InOut
Pass1InOut ==
    /\ pc = "pass1"
    /\ idx < Len(rust_operands)
    /\ Operand.kind = "InOut"
    /\ LET gcc == reg_to_gcc(Operand.reg)
           readwrite == inout_readwrite(Operand.place)
           pushed == Append(outputs,
                        AsmOutOperand(idx, gcc.constraint, Operand.late, readwrite,
                                      NextVar, Operand.place))
       IN  CASE gcc.tag = "panic" -> PanicNow
             [] gcc.tag = "Constraint" ->
                  /\ stream' = Append(stream, NewLocal("output_register", "in_value", ""))
                  /\ outputs' = pushed
                  /\ inputs' = IF ~readwrite
                               THEN Append(inputs,
                                        AsmInOperand(idx, tied_constraint(pushed),
                                                     Immediate(idx)))
                               ELSE inputs
                  /\ idx' = idx + 1
                  /\ UNCHANGED <<args, pc, clobbers, constants_len, template_str,
                                 placed, extended_asm, diagnostics>>
             [] OTHER ->
                  \* left for the next pass
                  /\ idx' = idx + 1
                  /\ UNCHANGED <<args, pc, locals, effects>>

\* 1. Normal variables: Const, SymFn and SymStatic only add to constants_len.
Pass1Const ==
    /\ pc = "pass1"
    /\ idx < Len(rust_operands)
    /\ Operand.kind \in {"Const", "SymFn", "SymStatic"}
    /\ constants_len' = constants_len + Len(Operand.string)
          + (IF Operand.kind = "Const" /\ att_dialect(asm_arch, options) THEN 1 ELSE 0)
    /\ idx' = idx + 1
    /\ UNCHANGED <<args, pc, outputs, inputs, clobbers, template_str, placed, effects>>

\* 2. Register variables: `out("explicit register") var`
Pass2Out ==
    /\ pc = "pass2"
    /\ idx < Len(rust_operands)
    /\ Operand.kind = "Out"
    /\ LET gcc == reg_to_gcc(Operand.reg)
       IN  CASE gcc.tag = "panic" -> PanicNow
             [] gcc.tag = "Register" /\ Operand.place ->
                  /\ stream' = Append(stream,
                         NewLocal("output_register", "place", gcc.reg_name))
                  /\ outputs' = Append(outputs,
                         AsmOutOperand(idx, <<"r">>, Operand.late, FALSE, NextVar, TRUE))
                  /\ idx' = idx + 1
                  /\ UNCHANGED <<args, pc, inputs, clobbers, constants_len,
                                 template_str, placed, extended_asm, diagnostics>>
             [] OTHER ->
                  \* processed in the previous pass
                  /\ idx' = idx + 1
                  /\ UNCHANGED <<args, pc, locals, effects>>

\* 2. Register variables: `in("explicit register") var`
Pass2In ==
    /\ pc = "pass2"
    /\ idx < Len(rust_operands)
    /\ Operand.kind = "In"
    /\ LET gcc == reg_to_gcc(Operand.reg)
       IN  CASE gcc.tag = "panic" -> PanicNow
             [] gcc.tag = "Register" ->
                  /\ stream' = stream \o
                         <<NewLocal("input_register", "value", gcc.reg_name),
                           AddAssignment(NextVar, idx)>>
                  /\ inputs' = Append(inputs, AsmInOperand(idx, <<"r">>, RegVar(NextVar)))
                  /\ idx' = idx + 1
                  /\ UNCHANGED <<args, pc, outputs, clobbers, constants_len,
                                 template_str, placed, extended_asm, diagnostics>>
             [] OTHER ->
                  \* processed in the previous pass
                  /\ idx' = idx + 1
                  /\ UNCHANGED <<args, pc, locals, effects>>

\* 2. Register variables: `inout("explicit register") in_var => out_var`
Pass2InOut ==
    /\ pc = "pass2"
    /\ idx < Len(rust_operands)
    /\ Operand.kind = "InOut"
    /\ LET gcc == reg_to_gcc(Operand.reg)
           pushed == Append(outputs,
                        AsmOutOperand(idx, <<"r">>, Operand.late, FALSE, NextVar,
                                      Operand.place))
       IN  CASE gcc.tag = "panic" -> PanicNow
             [] gcc.tag = "Register" ->
                  /\ stream' = Append(stream,
                         NewLocal("output_register", "in_value", gcc.reg_name))
                  /\ outputs' = pushed
                  /\ inputs' = Append(inputs,
                         AsmInOperand(idx, tied_constraint(pushed), Immediate(idx)))
                  /\ idx' = idx + 1
                  /\ UNCHANGED <<args, pc, clobbers, constants_len, template_str,
                                 placed, extended_asm, diagnostics>>
             [] OTHER ->
                  \* processed in the previous pass
                  /\ idx' = idx + 1
                  /\ UNCHANGED <<args, pc, locals, effects>>

\* 2. Register variables: SymFn and SymStatic become "X" inputs.
Pass2Sym ==
    /\ pc = "pass2"
    /\ idx < Len(rust_operands)
    /\ Operand.kind \in {"SymFn", "SymStatic"}
    /\ inputs' = Append(inputs, AsmInOperand(idx, <<"X">>, Address(idx)))
    /\ idx' = idx + 1
    /\ UNCHANGED <<args, pc, outputs, clobbers, constants_len, template_str, placed,
                   effects>>

\* 2. Register variables: Const was processed in the previous pass.
Pass2Const ==
    /\ pc = "pass2"
    /\ idx < Len(rust_operands)
    /\ Operand.kind = "Const"
    /\ idx' = idx + 1
    /\ UNCHANGED <<args, pc, locals, effects>>

\* 3. Build the template string: the buffer, opened by ATT_SYNTAX_INS.
TemplateStart ==
    /\ pc = "pass2"
    /\ idx = Len(rust_operands)
    /\ template_str' = IF att_dialect(asm_arch, options) THEN ATT_SYNTAX_INS ELSE <<>>
    /\ pc' = "template"
    /\ idx' = 0
    /\ UNCHANGED <<args, outputs, inputs, clobbers, constants_len, placed, effects>>

Piece == template[idx + 1]

\* InlineAsmTemplatePiece::String
TemplateString ==
    /\ pc = "template"
    /\ idx < Len(template)
    /\ Piece.kind = "String"
    /\ template_str' = template_str \o escape_percent(Piece.string)
    /\ idx' = idx + 1
    /\ UNCHANGED <<args, pc, outputs, inputs, clobbers, constants_len, placed, effects>>

\* Substitution with unwrap_or_default() in place of
\* expect("wrong rust index"): position 0 where no record is found.
Substitution_unwrap_or_default(op, operand_idx, modifier) ==
    LET gcc_modifier == modifier_to_gcc(asm_arch, reg_class(op.reg), modifier)
        pos(ops) == IF HasPosition(ops, operand_idx)
                    THEN position(ops, operand_idx) ELSE 0
    IN  CASE op.kind \in {"Out", "InOut"} ->
               IF gcc_modifier = "panic" THEN "panic"
               ELSE push_to_template(gcc_modifier, pos(outputs))
          [] op.kind = "In" ->
               IF gcc_modifier = "panic" THEN "panic"
               ELSE push_to_template(gcc_modifier, in_gcc_index(pos(inputs), outputs))
          [] op.kind \in {"SymFn", "SymStatic"} -> op.string
          [] OTHER ->
               (IF att_dialect(asm_arch, options) THEN <<"$">> ELSE <<>>) \o op.string

\* What a placeholder on operand op (source index operand_idx) is replaced
\* by; "panic" where modifier_to_gcc or expect("wrong rust index") panics.
Substitution(op, operand_idx, modifier) ==
    LET gcc_modifier == modifier_to_gcc(asm_arch, reg_class(op.reg), modifier)
    IN  CASE op.kind \in {"Out", "InOut"} ->
               IF gcc_modifier = "panic" \/ ~HasPosition(outputs, operand_idx)
               THEN "panic"
               ELSE push_to_template(gcc_modifier, position(outputs, operand_idx))
          [] op.kind = "In" ->
               IF gcc_modifier = "panic" \/ ~HasPosition(inputs, operand_idx)
               THEN "panic"
               ELSE push_to_template(gcc_modifier,
                        in_gcc_index(position(inputs, operand_idx), outputs))
          [] op.kind \in {"SymFn", "SymStatic"} -> op.string
          [] OTHER ->
               \* Const operands get injected directly into the template
               (IF att_dialect(asm_arch, options) THEN <<"$">> ELSE <<>>) \o op.string

\* InlineAsmTemplatePiece::Placeholder
TemplatePlaceholder ==
    /\ pc = "template"
    /\ idx < Len(template)
    /\ Piece.kind = "Placeholder"
    /\ LET text == Substitution(rust_operands[Piece.operand_idx + 1],
                                Piece.operand_idx, Piece.modifier)
       IN  IF text = "panic"
           THEN PanicNow
           ELSE /\ template_str' = template_str \o text
                /\ placed' = Append(placed,
                       [operand_idx |-> Piece.operand_idx, text |-> text])
                /\ idx' = idx + 1
                /\ UNCHANGED <<args, pc, outputs, inputs, clobbers, constants_len,
                               effects>>

\* The end of `for piece in template`, closed by INTEL_SYNTAX_INS.
TemplateDone ==
    /\ pc = "template"
    /\ idx = Len(template)
    /\ template_str' = template_str \o
          (IF att_dialect(asm_arch, options) THEN INTEL_SYNTAX_INS ELSE <<>>)
    /\ pc' = "asm"
    /\ UNCHANGED <<args, idx, outputs, inputs, clobbers, constants_len, placed, effects>>

\* 4. Generate Extended Asm block
GenerateAsm ==
    /\ pc = "asm"
    /\ extended_asm' =
          [present |-> TRUE,
           template |-> template_str,
           outputs |-> [k \in 1..Len(outputs) |->
                          [constraint |-> to_constraint(outputs[k]),
                           tmp_var |-> outputs[k].tmp_var]],
           inputs |-> [k \in 1..Len(inputs) |->
                          [constraint |-> inputs[k].constraint, val |-> inputs[k].val]],
           clobbers |-> asm_clobbers(clobbers, options),
           volatile |-> PURE \notin options]
    /\ stream' = stream \o <<AddExtendedAsm>>
          \o (IF NORETURN \in options THEN <<CallUnreachable>> ELSE <<>>)
    /\ pc' = "store"
    /\ UNCHANGED <<args, idx, locals, diagnostics>>

\* HasOutPlace with the `if let Some(place)` test dropped.
has_out_place_always(op) == TRUE

HasOutPlace(op) == op.out_place

\* Write results to outputs: `out_place = tmp_var;` where out_place exists.
WriteResults ==
    /\ pc = "store"
    /\ LET bound == SelectSeq(outputs, HasOutPlace)
       IN  stream' = stream \o
              [k \in 1..Len(bound) |-> Store(bound[k].tmp_var, bound[k].rust_idx)]
    /\ pc' = "done"
    /\ UNCHANGED <<args, idx, locals, extended_asm, diagnostics>>

Next ==
    \/ CheckUnwind
    \/ Pass1Out \/ Pass1In \/ Pass1InOut \/ Pass1Const \/ Pass1Done
    \/ Pass2Out \/ Pass2In \/ Pass2InOut \/ Pass2Sym \/ Pass2Const
    \/ TemplateStart \/ TemplateString \/ TemplatePlaceholder \/ TemplateDone
    \/ GenerateAsm
    \/ WriteResults

Spec == Init /\ [][Next]_vars

(***************************************************************************)
(* codegen_global_asm, step by step.  `operands` is held in rust_operands, *)
(* the text handed to add_top_level_asm in stream; the variables of        *)
(* codegen_inline_asm it has no use for keep their initial values.         *)
(***************************************************************************)
\* str::lines(): the string split at "\n", a last empty piece dropped, a
\* "\r" before the "\n" dropped with it.
lines(string) ==
    LET pieces == split(string, "\n")
        n == IF pieces[Len(pieces)] = <<>> THEN Len(pieces) - 1 ELSE Len(pieces)
    IN  [k \in 1..n |->
            IF /\ k < Len(pieces)
               /\ pieces[k] # <<>>
               /\ pieces[k][Len(pieces[k])] = "\r"
            THEN SubSeq(pieces[k], 1, Len(pieces[k]) - 1)
            ELSE pieces[k]]

\* The byte indices at which "//" starts in line.
comment_indices(line) ==
    {i \in 0..(Len(line) - 2) : line[i + 1] = "/" /\ line[i + 2] = "/"}

\* line.rfind("//"): the last of these indices (where there is one).
rfind(line) ==
    CHOOSE i \in comment_indices(line) : \A j \in comment_indices(line) : j <= i

\* if let Some(index) = line.rfind("//") { &line[..index] } else { line }
remove_comment(line) ==
    IF comment_indices(line) # {} THEN SubSeq(line, 1, rfind(line)) ELSE line

\* for line in string.lines() { push_str(line); push('\n') }
RECURSIVE push_lines(_)
push_lines(ls) ==
    IF ls = <<>> THEN <<>>
    ELSE remove_comment(Head(ls)) \o <<"\n">> \o push_lines(Tail(ls))

\* format!(".att_syntax\n\t{}\n\t.intel_syntax noprefix", template_str)
wrap_att(text) ==
    <<".", "a", "t", "t", "_", "s", "y", "n", "t", "a", "x", "\n", "\t">>
        \o text
        \o <<"\n", "\t", ".", "i", "n", "t", "e", "l", "_", "s", "y", "n", "t", "a", "x",
             " ", "n", "o", "p", "r", "e", "f", "i", "x">>

\* wrap_section without the closing directive.
wrap_section_no_pop(text) ==
    <<".", "p", "u", "s", "h", "s", "e", "c", "t", "i", "o", "n", " ",
      ".", "t", "e", "x", "t", "\n">> \o text

\* format!(".pushsection .text\n{}\n.popsection", template_str)
wrap_section(text) ==
    <<".", "p", "u", "s", "h", "s", "e", "c", "t", "i", "o", "n", " ",
      ".", "t", "e", "x", "t", "\n">>
        \o text
        \o <<"\n", ".", "p", "o", "p", "s", "e", "c", "t", "i", "o", "n">>

AddTopLevelAsm(text) == [op |-> "add_top_level_asm", text |-> text]

\* Literal pieces: plain, with one and with two comments, of two lines,
\* closed by a line break, and a comment alone.
GlobalStrings ==
    { String(<<"a">>),
      String(<<"a", "/", "/", "b">>),
      String(<<"a", "/", "/", "b", "/", "/", "c">>),
      String(<<"a", "\n", "b">>),
      String(<<"a", "\n">>),
      String(<<"/", "/", "c">>) }

GlobalInit ==
    /\ rust_operands \in SeqsUpTo(SymbolOperands, MaxOps)
    /\ template \in SeqsUpTo(GlobalStrings \cup PlaceholdersOf(rust_operands), MaxPieces)
    /\ options \in {{}, {ATT_SYNTAX}}
    /\ asm_arch \in {"X86_64", "AArch64"}
    /\ target_features = {}
    /\ pc = "global"
    /\ idx = 0
    /\ outputs = <<>>
    /\ inputs = <<>>
    /\ clobbers = <<>>
    /\ constants_len = 0
    /\ template_str = <<>>
    /\ placed = <<>>
    /\ stream = <<>>
    /\ extended_asm = NoAsm
    /\ diagnostics = <<>>

\* InlineAsmTemplatePiece::String
GlobalString ==
    /\ pc = "global"
    /\ idx < Len(template)
    /\ Piece.kind = "String"
    /\ template_str' = template_str \o push_lines(lines(Piece.string))
    /\ idx' = idx + 1
    /\ UNCHANGED <<args, pc, outputs, inputs, clobbers, constants_len, placed, effects>>

\* InlineAsmTemplatePiece::Placeholder: the constant text or the symbol
\* name is pushed as it is; placed keeps the piece and the offset of the
\* text in template_str.
GlobalPlaceholder ==
    /\ pc = "global"
    /\ idx < Len(template)
    /\ Piece.kind = "Placeholder"
    /\ LET text == rust_operands[Piece.operand_idx + 1].string
       IN  /\ template_str' = template_str \o text
           /\ placed' = Append(placed,
                  [operand_idx |-> Piece.operand_idx, text |-> text,
                   piece |-> idx, at |-> Len(template_str)])
    /\ idx' = idx + 1
    /\ UNCHANGED <<args, pc, outputs, inputs, clobbers, constants_len, effects>>

\* The end of `for piece in template`: the wrappers and add_top_level_asm.
GlobalFinish ==
    /\ pc = "global"
    /\ idx = Len(template)
    /\ stream' = Append(stream,
          AddTopLevelAsm(wrap_section(
              IF att_dialect(asm_arch, options)
              THEN wrap_att(template_str) ELSE template_str)))
    /\ pc' = "global_done"
    /\ UNCHANGED <<args, idx, locals, extended_asm, diagnostics>>

GlobalNext == GlobalString \/ GlobalPlaceholder \/ GlobalFinish

GlobalSpec == GlobalInit /\ [][GlobalNext]_vars

(***************************************************************************)
(* Properties                                                              *)
(***************************************************************************)
\* Both passes over the operands are over: outputs and inputs are final.
PassesDone == pc \in {"template", "asm", "store", "done"}

OperandAt(rust_idx) == rust_operands[rust_idx + 1]

RustIndices == 0..(Len(rust_operands) - 1)

OutputsOf(rust_idx) == {p \in 1..Len(outputs) : outputs[p].rust_idx = rust_idx}

InputsOf(rust_idx) == {q \in 1..Len(inputs) : inputs[q].rust_idx = rust_idx}

IsExplicit(op) == op.reg.tag = "Reg"

\* The modifiers GCC knows, as text after the '%'.
GccModifierTexts ==
    {<<>>} \cup {<<c>> : c \in {"q", "k", "b", "h", "w", "x", "t", "g"}}

\* text is a placeholder on GCC operand n: '%', a modifier or none, n.
RewrittenTo(text, n) ==
    \E m \in GccModifierTexts : text = <<"%">> \o m \o ToString(n)

\* C1: with MAY_UNWIND set the call reports UnwindingInlineAsm and returns
\* before any pass: it declares no temporary, emits no assignment and appends
\* no extended asm, whatever the operands, template and other options.
C1_UnwindAborts ==
    MAY_UNWIND \in options =>
        /\ pc \in {"start", "returned"}
        /\ stream = <<>>
        /\ extended_asm = NoAsm
        /\ outputs = <<>> /\ inputs = <<>> /\ clobbers = <<>>
        /\ pc = "returned" => diagnostics = <<"UnwindingInlineAsm">>

C1_Witness ==
    /\ pc = "returned"
    /\ MAY_UNWIND \in options
    /\ diagnostics = <<"UnwindingInlineAsm">>
    /\ Len(rust_operands) > 0
    /\ Len(template) > 0
    /\ options # {MAY_UNWIND}

\* C2: a placeholder on an Out or InOut operand is rewritten to that
\* operand's position in the output array (below |outputs|), one on an In
\* operand to its position in the input array plus |outputs|.
C2_PlaceholderIndex ==
    \A k \in 1..Len(placed) :
        LET e == placed[k]
            op == OperandAt(e.operand_idx)
        IN  /\ op.kind \in {"Out", "InOut"} =>
                 \E p \in OutputsOf(e.operand_idx) :
                     /\ OutputsOf(e.operand_idx) = {p}
                     /\ p - 1 < Len(outputs)
                     /\ RewrittenTo(e.text, p - 1)
            /\ op.kind = "In" =>
                 \E q \in InputsOf(e.operand_idx) :
                     /\ InputsOf(e.operand_idx) = {q}
                     /\ (q - 1) + Len(outputs) >= Len(outputs)
                     /\ RewrittenTo(e.text, (q - 1) + Len(outputs))

\* Scenario B: In at source index 0, Out at source index 1, "%0 %1".
C2_Witness ==
    /\ pc = "done"
    /\ Len(rust_operands) = 2
    /\ OperandAt(0).kind = "In" /\ ~IsExplicit(OperandAt(0))
    /\ OperandAt(1).kind = "Out" /\ ~IsExplicit(OperandAt(1))
    /\ Len(outputs) = 1 /\ outputs[1].rust_idx = 1
    /\ Len(inputs) = 1 /\ inputs[1].rust_idx = 0
    /\ Len(placed) = 2
    /\ placed[1].operand_idx = 0 /\ RewrittenTo(placed[1].text, 1)
    /\ placed[2].operand_idx = 1 /\ RewrittenTo(placed[2].text, 0)

\* C3: a destination-bound InOut (register class or explicit register)
\* yields exactly one output record and exactly one input record, and the
\* input's constraint is the decimal text of the output's final GCC index.
C3_TiedInOut ==
    PassesDone =>
        \A i \in RustIndices :
            OperandAt(i).kind = "InOut" /\ OperandAt(i).place =>
                /\ Cardinality(OutputsOf(i)) = 1
                /\ Cardinality(InputsOf(i)) = 1
                /\ \A p \in OutputsOf(i) : \A q \in InputsOf(i) :
                       inputs[q].constraint = ToString(p - 1)

\* A tied InOut whose output is followed by a later output and whose GCC
\* index is not its source index.
C3_Witness ==
    /\ pc = "done"
    /\ \E i \in RustIndices :
          /\ OperandAt(i).kind = "InOut" /\ OperandAt(i).place
          /\ \E p \in OutputsOf(i) : p < Len(outputs) /\ p - 1 # i
    /\ \E i \in RustIndices :
          /\ OperandAt(i).kind = "InOut" /\ OperandAt(i).place
          /\ IsExplicit(OperandAt(i))

C5_DiscardExplicitOnlyClobbers ==
    PassesDone =>
        \A i \in RustIndices :
            LET op == OperandAt(i)
            IN  op.kind \in {"Out", "InOut"} /\ IsExplicit(op) /\ ~op.place =>
                    /\ OutputsOf(i) = {}
                    /\ InputsOf(i) = {}
                    /\ (\E k \in 1..Len(clobbers) :
                            clobbers[k] = reg_to_gcc(op.reg).reg_name)
                         <=> is_target_supported(op.reg, asm_arch, target_features)

\* C6 (as claimed): no source index is carried both by an output record and
\* by an input record.
C6_DisjointBySourceIndex ==
    PassesDone =>
        \A p \in 1..Len(outputs) : \A q \in 1..Len(inputs) :
            outputs[p].rust_idx # inputs[q].rust_idx

\* C6 (amended): a source index is carried by an output record and by an
\* input record only for an InOut operand that is destination-bound or on an
\* explicit register, and then the input is tied to that output; Out operands
\* have records among the outputs only, In and symbol operands among the
\* inputs only.
C6_SharedOnlyByTiedInOut ==
    PassesDone =>
        /\ \A p \in 1..Len(outputs) : \A q \in 1..Len(inputs) :
               outputs[p].rust_idx = inputs[q].rust_idx =>
                   LET op == OperandAt(outputs[p].rust_idx)
                   IN  /\ op.kind = "InOut"
                       /\ op.place \/ IsExplicit(op)
                       /\ inputs[q].constraint = ToString(p - 1)
        /\ \A p \in 1..Len(outputs) :
               OperandAt(outputs[p].rust_idx).kind \in {"Out", "InOut"}
        /\ \A q \in 1..Len(inputs) :
               OperandAt(inputs[q].rust_idx).kind \in {"In", "InOut", "SymFn", "SymStatic"}

\* A tied InOut beside an In: the InOut's index is in both arrays, and its
\* GCC index differs from its source index.
C6_Witness ==
    /\ pc = "done"
    /\ \E p \in 1..Len(outputs) : \E q \in 1..Len(inputs) :
          /\ outputs[p].rust_idx = inputs[q].rust_idx
          /\ p - 1 # outputs[p].rust_idx
    /\ \E q \in 1..Len(inputs) : OutputsOf(inputs[q].rust_idx) = {}

\* The single operand of scenario A and its template.
ScenarioA ==
    /\ Len(rust_operands) = 1
    /\ OperandAt(0).kind = "InOut"
    /\ OperandAt(0).reg = X86_reg
    /\ OperandAt(0).place
    /\ template = <<Placeholder(0, NoModifier)>>
    /\ ATT_SYNTAX \notin options

\* C7 (as claimed): scenario A gives outputs = [constraint "+r"], inputs = []
\* and the rewritten template "%0".
C7_ScenarioA ==
    pc = "done" /\ ScenarioA =>
        /\ Len(extended_asm.outputs) = 1
        /\ extended_asm.outputs[1].constraint = <<"+", "r">>
        /\ extended_asm.inputs = <<>>
        /\ extended_asm.template = <<"%", "0">>

\* C7 (amended): scenario A gives one write-only output, "=&r" ("=r" when
\* the operand is late), one input tied to it by the constraint "0", and the
\* template "%q0" on x86_64, "%k0" on x86.
C7_ScenarioATied ==
    pc = "done" /\ ScenarioA =>
        /\ Len(extended_asm.outputs) = 1
        /\ extended_asm.outputs[1].constraint =
              (IF OperandAt(0).late THEN <<"=", "r">> ELSE <<"=", "&", "r">>)
        /\ Len(extended_asm.inputs) = 1
        /\ extended_asm.inputs[1].constraint = <<"0">>
        /\ extended_asm.inputs[1].val = Immediate(0)
        /\ extended_asm.template =
              (IF asm_arch = "X86_64" THEN <<"%", "q", "0">> ELSE <<"%", "k", "0">>)

C7_Witness ==
    /\ pc = "done"
    /\ ScenarioA
    /\ ~OperandAt(0).late
    /\ extended_asm.present
    /\ extended_asm.template = <<"%", "q", "0">>

\* Placeholders on register operands / on symbol and constant operands.
IsRegisterOperand(op) == op.kind \in {"Out", "In", "InOut"}

\* C8 (as claimed): placeholders on different source operands are never
\* replaced by the same text, symbol names and constant texts included.
C8_NoCollision ==
    \A j \in 1..Len(placed) : \A k \in 1..Len(placed) :
        placed[j].operand_idx # placed[k].operand_idx =>
            placed[j].text # placed[k].text

\* C8 (amended): placeholders on different Out / In / InOut operands are
\* rewritten to different GCC indices; a placeholder on a symbol or constant
\* operand is replaced by the operand's own name or text (after '$' for a
\* constant in the AT&T dialect), so two such operands get the same text
\* exactly when their names or texts are the same.
C8_DistinctIndices ==
    \A j \in 1..Len(placed) : \A k \in 1..Len(placed) :
        LET a == OperandAt(placed[j].operand_idx)
            b == OperandAt(placed[k].operand_idx)
        IN  placed[j].operand_idx # placed[k].operand_idx =>
                /\ IsRegisterOperand(a) /\ IsRegisterOperand(b) =>
                       ~\E n \in 0..(Len(outputs) + Len(inputs)) :
                            RewrittenTo(placed[j].text, n) /\ RewrittenTo(placed[k].text, n)
                /\ ~IsRegisterOperand(a) /\ ~IsRegisterOperand(b)
                   /\ a.kind = b.kind =>
                       (placed[j].text = placed[k].text <=> a.string = b.string)

\* An In and an Out both named once: GCC indices 1 and 0.
C8_Witness ==
    /\ pc = "done"
    /\ Len(placed) = 2
    /\ placed[1].operand_idx # placed[2].operand_idx
    /\ OperandAt(placed[1].operand_idx).kind = "In"
    /\ OperandAt(placed[2].operand_idx).kind = "Out"
    /\ RewrittenTo(placed[1].text, 1)
    /\ RewrittenTo(placed[2].text, 0)

\* C9: each register name occurs at most once in the clobber list, also when
\* two discard-bound operands name the same register.
C9_ClobbersAreASet ==
    /\ \A j \in 1..Len(clobbers) : \A k \in 1..Len(clobbers) :
           clobbers[j] = clobbers[k] => j = k
    /\ extended_asm.present =>
           \A j \in 1..Len(extended_asm.clobbers) :
               \A k \in 1..Len(extended_asm.clobbers) :
                   extended_asm.clobbers[j] = extended_asm.clobbers[k] => j = k

\* Two operands `out("eax") _`, one clobber "eax".
C9_Witness ==
    /\ pc = "done"
    /\ Len(rust_operands) = 2
    /\ OperandAt(0) = OperandAt(1)
    /\ OperandAt(0).kind = "Out" /\ OperandAt(0).reg = X86_eax /\ ~OperandAt(0).place
    /\ clobbers = <<"eax">>
    /\ Cardinality({k \in 1..Len(extended_asm.clobbers) :
                        extended_asm.clobbers[k] = "eax"}) = 1

InClobbers(name) ==
    \E k \in 1..Len(extended_asm.clobbers) : extended_asm.clobbers[k] = name

\* C10: the extended asm carries the clobber "cc" unless PRESERVES_FLAGS is
\* set and the clobber "memory" unless NOMEM is set, each decided by its own
\* option alone.
C10_FlagsAndMemoryClobbers ==
    extended_asm.present =>
        /\ InClobbers("cc") <=> PRESERVES_FLAGS \notin options
        /\ InClobbers("memory") <=> NOMEM \notin options

C10_Witness ==
    /\ pc = "done"
    /\ PRESERVES_FLAGS \in options /\ NOMEM \notin options
    /\ Len(rust_operands) > 0
    /\ ~InClobbers("cc") /\ InClobbers("memory")

\* Kinds of stream entries.
IsPinnedDecl(ev) == ev.op = "new_local" /\ ev.register_name # ""

IsPlainOutputDecl(ev) ==
    ev.op = "new_local" /\ ev.register_name = "" /\ ev.name = "output_register"

AsmPositions == {a \in 1..Len(stream) : stream[a].op = "add_extended_asm"}

\* C11 (as claimed): every declaration of a non-pinned output temporary
\* precedes every pinned-register declaration, and nothing at all (no
\* instruction, no assignment) lies between a pinned-register declaration
\* and the extended asm.
C11_NothingBetweenPinnedAndAsm ==
    /\ \A j \in 1..Len(stream) : \A k \in 1..Len(stream) :
           IsPlainOutputDecl(stream[j]) /\ IsPinnedDecl(stream[k]) => j < k
    /\ \A a \in AsmPositions : \A j \in 1..(a - 1) :
           IsPinnedDecl(stream[j]) =>
               \A k \in (j + 1)..(a - 1) : IsPinnedDecl(stream[k])

StorePositions == {k \in 1..Len(stream) : stream[k].op = "store"}

\* The positions of the post-execution copies of output record p.
StoresOf(p) == {k \in StorePositions : stream[k].tmp_var = outputs[p].tmp_var}

\* C12: a successful call appends exactly one extended asm and, after it,
\* exactly one copy for each output record with a destination, in the order
\* of the output array, and none for a discarded output; no copy is ever
\* emitted before the asm.
C12_OneAsmThenCopies ==
    /\ Cardinality(AsmPositions) <= 1
    /\ \A k \in StorePositions : \E a \in AsmPositions : a < k
    /\ pc = "done" =>
          /\ Cardinality(AsmPositions) = 1
          /\ \A p \in 1..Len(outputs) :
                Cardinality(StoresOf(p)) = (IF outputs[p].out_place THEN 1 ELSE 0)
          /\ \A k \in StorePositions : \E p \in 1..Len(outputs) :
                /\ k \in StoresOf(p)
                /\ stream[k].rust_idx = outputs[p].rust_idx
          /\ \A p \in 1..Len(outputs) : \A q \in 1..Len(outputs) :
                p < q => \A k \in StoresOf(p) : \A m \in StoresOf(q) : k < m

\* A finished call whose first output is bound and copied and whose second
\* output is discarded.
C12_Witness ==
    /\ pc = "done"
    /\ \E p \in 1..Len(outputs) : \E q \in 1..Len(outputs) :
          /\ p < q
          /\ outputs[p].out_place
          /\ ~outputs[q].out_place
          /\ StoresOf(p) # {}

\* A register operand the resolver has no entry for: a register or class
\* of another architecture than x86, or the x86 class kreg0.
Unresolved(op) ==
    /\ IsRegisterOperand(op)
    /\ \/ op.reg.arch # "X86"
       \/ op.reg.tag = "RegClass" /\ op.reg.class = "kreg0"

HasUnresolved == \E i \in 1..Len(rust_operands) : Unresolved(rust_operands[i])

\* No operand before the one in hand is unresolved, no record was made
\* for an unresolved operand and no asm was appended.
NoGuessedConstraint ==
    /\ ~extended_asm.present
    /\ AsmPositions = {}
    /\ \A k \in 1..Len(outputs) : ~Unresolved(OperandAt(outputs[k].rust_idx))
    /\ \A k \in 1..Len(inputs) : ~Unresolved(OperandAt(inputs[k].rust_idx))
    /\ pc = "pass1" => \A i \in 1..idx : ~Unresolved(rust_operands[i])

\* C13 (as claimed): a call with an unresolved register operand aborts
\* with the unimplemented failure, whatever its options, and never appends
\* an asm or emits a constraint for that operand.
C13_UnresolvedAlwaysPanics ==
    HasUnresolved => pc \in {"start", "pass1", "panicked"} /\ NoGuessedConstraint

\* C13 (amended): a call with an unresolved register operand never gets
\* past the first pass, never appends an asm and never emits a constraint
\* for that operand; it aborts with the unimplemented failure unless
\* MAY_UNWIND is set, and then it returns after the unwinding diagnostic.
C13_UnresolvedAborts ==
    HasUnresolved =>
        /\ pc \in {"start", "pass1", "panicked", "returned"}
        /\ pc = "panicked" => MAY_UNWIND \notin options
        /\ pc = "returned" =>
              MAY_UNWIND \in options /\ diagnostics = <<"UnwindingInlineAsm">>
        /\ NoGuessedConstraint

\* The call aborted on an operand of class kreg0.
C13_Witness ==
    /\ pc = "panicked"
    /\ \E i \in 1..Len(rust_operands) :
          /\ Unresolved(rust_operands[i])
          /\ rust_operands[i].reg.class = "kreg0"

\* A register operand without a record in outputs and inputs.
NoRecord(rust_idx) ==
    /\ IsRegisterOperand(OperandAt(rust_idx))
    /\ OutputsOf(rust_idx) = {}
    /\ InputsOf(rust_idx) = {}

\* The first n template pieces hold no placeholder on a recordless operand.
NoDanglingPlaceholder(n) ==
    \A j \in 1..n :
        template[j].kind = "Placeholder" => ~NoRecord(template[j].operand_idx)

\* C14: the template loop never gets past a placeholder on a register
\* operand without a record in the classified arrays, and no asm is
\* appended for a template that holds one.
C14_DanglingPlaceholderAborts ==
    /\ pc = "template" => NoDanglingPlaceholder(idx)
    /\ pc \in {"asm", "store", "done"} \/ extended_asm.present \/ AsmPositions # {}
          => NoDanglingPlaceholder(Len(template))

\* The call aborted in the template loop, after a literal piece, on a
\* placeholder for a discard-bound explicit-register Out that was recorded
\* only as a clobber.
C14_Witness ==
    /\ pc = "panicked"
    /\ ~HasUnresolved
    /\ idx = 1
    /\ Len(template) = 2
    /\ template[1].kind = "String"
    /\ template_str # <<>>
    /\ template[2].kind = "Placeholder"
    /\ NoRecord(template[2].operand_idx)
    /\ LET op == OperandAt(template[2].operand_idx)
       IN  op.kind = "Out" /\ IsExplicit(op) /\ ~op.place
    /\ clobbers # <<>>
    /\ ~extended_asm.present

\* The template string is complete.
TemplateBuilt == pc \in {"asm", "store", "done"}

\* A literal text with every '%' doubled and every other character kept.
RECURSIVE Doubled(_)
Doubled(string) ==
    IF string = <<>> THEN <<>>
    ELSE (IF Head(string) = "%" THEN <<"%", "%">> ELSE <<Head(string)>>)
            \o Doubled(Tail(string))

\* The pieces j.. of the template, literal pieces doubled and every
\* placeholder replaced by its substitution, n placeholders lying before
\* piece j.
RECURSIVE Rewritten(_, _)
Rewritten(j, n) ==
    IF j > Len(template) THEN <<>>
    ELSE IF template[j].kind = "String"
         THEN Doubled(template[j].string) \o Rewritten(j + 1, n)
         ELSE placed[n + 1].text \o Rewritten(j + 1, n + 1)

ConstantsPlaced ==
    {n \in 1..Len(placed) : OperandAt(placed[n].operand_idx).kind = "Const"}

\* C15 (scenario C): with ATT_SYNTAX on x86 or x86_64 the template is the
\* rewritten pieces between the dialect-switch-in and the dialect-switch-out
\* directive and every constant substitution has the '$' prefix; without
\* the option or on another architecture the template is the rewritten
\* pieces alone and a constant is substituted by its bare text.
C15_ScenarioC ==
    TemplateBuilt =>
        IF ATT_SYNTAX \in options /\ asm_arch \in {"X86", "X86_64"}
        THEN /\ template_str = ATT_SYNTAX_INS \o Rewritten(1, 0) \o INTEL_SYNTAX_INS
             /\ \A n \in ConstantsPlaced :
                   placed[n].text = <<"$">> \o OperandAt(placed[n].operand_idx).string
        ELSE /\ template_str = Rewritten(1, 0)
             /\ \A n \in ConstantsPlaced :
                   placed[n].text = OperandAt(placed[n].operand_idx).string

\* A finished AT&T call on x86_64 with a constant substituted.
C15_Witness ==
    /\ pc = "done"
    /\ ATT_SYNTAX \in options
    /\ asm_arch = "X86_64"
    /\ ConstantsPlaced # {}
    /\ extended_asm.template = template_str
    /\ SubSeq(template_str, 1, Len(ATT_SYNTAX_INS)) = ATT_SYNTAX_INS

\* The number of '%' of text that are not one of a "%%" pair, pairs taken
\* from the left.
RECURSIVE SinglePercents(_)
SinglePercents(text) ==
    IF text = <<>> THEN 0
    ELSE IF Head(text) # "%" THEN SinglePercents(Tail(text))
    ELSE IF Len(text) >= 2 /\ text[2] = "%" THEN SinglePercents(Tail(Tail(text)))
    ELSE 1 + SinglePercents(Tail(text))

RegistersPlaced ==
    {n \in 1..Len(placed) : IsRegisterOperand(OperandAt(placed[n].operand_idx))}

\* C16: in the rewritten template every literal piece appears with each
\* '%' doubled and its other characters unchanged and in order, and the
\* single '%' of the template are exactly those that open the rewritten
\* placeholders of register operands.
C16_LiteralPercentEscaped ==
    TemplateBuilt =>
        /\ \E pre \in {<<>>, ATT_SYNTAX_INS} : \E post \in {<<>>, INTEL_SYNTAX_INS} :
              template_str = pre \o Rewritten(1, 0) \o post
        /\ SinglePercents(template_str) = Cardinality(RegistersPlaced)
        /\ \A n \in 1..Len(placed) :
              IF n \in RegistersPlaced
              THEN /\ Head(placed[n].text) = "%"
                   /\ \A i \in 2..Len(placed[n].text) : placed[n].text[i] # "%"
              ELSE \A i \in 1..Len(placed[n].text) : placed[n].text[i] # "%"

\* A finished call whose template holds the literal "a%%b" and a
\* placeholder on a register operand.
C16_Witness ==
    /\ pc = "done"
    /\ \E j \in 1..Len(template) :
          template[j].kind = "String" /\ template[j].string = <<"a", "%", "%", "b">>
    /\ RegistersPlaced # {}
    /\ SinglePercents(template_str) = 1

\* C17: the constraint string of every output operand of the extended asm
\* is "+&c", "+c", "=&c" or "=c" for the constraint code c of its record,
\* by whether the record is read-write and whether it is late.
C17_OutputConstraintString ==
    extended_asm.present =>
        /\ Len(extended_asm.outputs) = Len(outputs)
        /\ \A k \in 1..Len(outputs) :
              LET c == outputs[k].constraint
                  text == extended_asm.outputs[k].constraint
              IN  CASE outputs[k].readwrite /\ ~outputs[k].late -> text = <<"+", "&">> \o c
                    [] outputs[k].readwrite /\ outputs[k].late -> text = <<"+">> \o c
                    [] ~outputs[k].readwrite /\ ~outputs[k].late -> text = <<"=", "&">> \o c
                    [] OTHER -> text = <<"=">> \o c

\* An extended asm with a late read-write output of class reg: "+r".
C17_Witness ==
    /\ extended_asm.present
    /\ \E k \in 1..Len(outputs) :
          /\ outputs[k].readwrite
          /\ outputs[k].late
          /\ extended_asm.outputs[k].constraint = <<"+", "r">>

\* text holds the sequence "//".
HasComment(text) ==
    \E i \in 1..(Len(text) - 1) : text[i] = "/" /\ text[i + 1] = "/"

\* C18 (as claimed): what codegen_global_asm emits for a literal piece
\* holds no "//", also for a line with more than one "//" (the constants
\* and symbol names spliced in hold no '/').
C18_NoCommentLeft == ~HasComment(template_str)

SectionPush ==
    <<".", "p", "u", "s", "h", "s", "e", "c", "t", "i", "o", "n", " ",
      ".", "t", "e", "x", "t", "\n">>

SectionPop == <<"\n", ".", "p", "o", "p", "s", "e", "c", "t", "i", "o", "n">>

GlobalAttIn == <<".", "a", "t", "t", "_", "s", "y", "n", "t", "a", "x", "\n", "\t">>

GlobalAttOut ==
    <<"\n", "\t", ".", "i", "n", "t", "e", "l", "_", "s", "y", "n", "t", "a", "x",
      " ", "n", "o", "p", "r", "e", "f", "i", "x">>

\* C19: codegen_global_asm appends exactly one top-level asm block; it
\* starts with the section-push and ends with the section-pop directive,
\* and between them lies the template body, enclosed by the
\* dialect-switch-in and dialect-switch-out directives when ATT_SYNTAX is
\* set on x86 or x86_64 and bare otherwise.
C19_SectionWrapper ==
    /\ pc = "global" => stream = <<>>
    /\ pc = "global_done" =>
          /\ Len(stream) = 1
          /\ stream[1].op = "add_top_level_asm"
          /\ stream[1].text =
                SectionPush
                    \o (IF ATT_SYNTAX \in options /\ asm_arch \in {"X86", "X86_64"}
                        THEN GlobalAttIn \o template_str \o GlobalAttOut
                        ELSE template_str)
                    \o SectionPop

\* A finished AT&T call on x86_64 with a body.
C19_Witness ==
    /\ pc = "global_done"
    /\ ATT_SYNTAX \in options
    /\ asm_arch = "X86_64"
    /\ template_str # <<>>
    /\ Len(stream) = 1
    /\ SubSeq(stream[1].text, 1, Len(SectionPush)) = SectionPush

\* The placeholder placed[n] stands right after a literal piece that is
\* not empty, does not end in a line break and holds no comment.
FollowsLiteralText(n) ==
    /\ placed[n].piece >= 1
    /\ LET before == template[placed[n].piece]
       IN  /\ before.kind = "String"
           /\ before.string # <<>>
           /\ before.string[Len(before.string)] # "\n"
           /\ ~HasComment(before.string)

\* C20 (as claimed): a substitution directly follows the literal text that
\* precedes its placeholder on the same line: no line break stands between
\* that text and the substitution.
C20_NoLineBreakBeforeSubstitution ==
    pc = "global_done" =>
        \A n \in 1..Len(placed) :
            FollowsLiteralText(n) =>
                /\ placed[n].at >= 1
                /\ template_str[placed[n].at] # "\n"

\* The record of source index rust_idx is made in the second pass: its
\* operand names an explicit register or a symbol.
MadeInPass2(rust_idx) ==
    \/ OperandAt(rust_idx).kind \in {"SymFn", "SymStatic"}
    \/ IsRegisterOperand(OperandAt(rust_idx)) /\ IsExplicit(OperandAt(rust_idx))

\* The records of ops are those of the first pass in source-index order,
\* then those of the second pass in source-index order.
StablePartition(ops) ==
    \A p \in 1..Len(ops) : \A q \in 1..Len(ops) :
        p < q =>
            /\ MadeInPass2(ops[p].rust_idx) => MadeInPass2(ops[q].rust_idx)
            /\ MadeInPass2(ops[p].rust_idx) = MadeInPass2(ops[q].rust_idx)
                  => ops[p].rust_idx < ops[q].rust_idx

\* C21: in the finished outputs the records of class-based operands come
\* first, in source-index order, then those of explicit-register operands,
\* in source-index order; in the finished inputs the records of class-based
\* In and InOut operands come first, in source-index order, then those of
\* explicit-register In and InOut operands and of symbols, in source-index
\* order.
C21_StablePartition ==
    PassesDone =>
        /\ StablePartition(outputs)
        /\ StablePartition(inputs)
        /\ \A k \in 1..Len(outputs) : OperandAt(outputs[k].rust_idx).kind \in {"Out", "InOut"}
        /\ \A k \in 1..Len(inputs) :
              OperandAt(inputs[k].rust_idx).kind \in {"In", "InOut", "SymFn", "SymStatic"}

\* A finished call on an explicit-register InOut followed by a class-based
\* InOut: both arrays hold the record of the second operand first.
C21_Witness ==
    /\ pc = "done"
    /\ Len(outputs) = 2
    /\ Len(inputs) = 2
    /\ outputs[1].rust_idx = 1 /\ outputs[2].rust_idx = 0
    /\ inputs[1].rust_idx = 1 /\ inputs[2].rust_idx = 0
    /\ MadeInPass2(0)
    /\ ~MadeInPass2(1)

====
